---- MODULE Spec2Model ----
(***************************************************************************)
(* Model of the aws-eks-iam-auth-controller (src/src/main.rs): the         *)
(* reconcile handler that regenerates the aws-auth ConfigMap from the      *)
(* IAMIdentityMapping custom resources held in the reflector store, the    *)
(* stats reporter, and main's select! over the two.                        *)
(***************************************************************************)
EXTENDS Integers, Sequences, FiniteSets, TLC

\* ------------------------------------------------------------------------
\* Bounds of the model
\* ------------------------------------------------------------------------
MaxStore == 2          \* most resources the reflector store holds
MaxInvocations == 3    \* most reconcile invocations started in one behaviour
MaxEvents == 1         \* most external events (watch events, out-of-band edits,
                       \* a task being ended)

Workers == {"w1", "w2"}  \* reconcile invocations that may be in flight together
Before(v, w) == v = "w1" /\ w = "w2"

\* ------------------------------------------------------------------------
\* Program constants
\* ------------------------------------------------------------------------
AWS_AUTH == "aws-auth"
KUBE_SYSTEM == "kube-system"
FIELD_MANAGER == "aws-eks-iam-auth-controller.rustrial.org"
RequeueOk == 900
RequeueErr == 10

\* Option<T>: None is the empty sequence, Some(v) the one-element sequence.
None == <<>>
Some(v) == <<v>>

\* ------------------------------------------------------------------------
\* Strings: the spelling of the strings whose characters the code inspects
\* ------------------------------------------------------------------------
ROLE_MARK == ":role/"
ArnFoo == "arn:role/foo"
ArnBar == "arn:user/bar"
ArnOld == "arn:user/old"

Chars(s) ==
  CASE s = ROLE_MARK -> <<":", "r", "o", "l", "e", "/">>
    [] s = ArnFoo -> <<"a", "r", "n", ":", "r", "o", "l", "e", "/", "f", "o", "o">>
    [] s = ArnBar -> <<"a", "r", "n", ":", "u", "s", "e", "r", "/", "b", "a", "r">>
    [] s = ArnOld -> <<"a", "r", "n", ":", "u", "s", "e", "r", "/", "o", "l", "d">>

\* str::contains: the needle occurs as a contiguous substring of the haystack
Contains(h, n) ==
  \E i \in 0..(Len(h) - Len(n)) : SubSeq(h, i + 1, i + Len(n)) = n

IsRoleArn(arn) == Contains(Chars(arn), Chars(ROLE_MARK))

\* ------------------------------------------------------------------------
\* IAMIdentityMappingSpec values the cluster may hold
\* ------------------------------------------------------------------------
Mapping(a, u, g) == [arn |-> a, username |-> u, groups |-> g]

Specs ==
  { Mapping(ArnFoo, "foo", Some(<<"system:masters">>)),
    Mapping(ArnFoo, "ops", None),
    Mapping(ArnBar, "bar", None) }

\* ------------------------------------------------------------------------
\* MapRole / MapUser and their YAML text
\* ------------------------------------------------------------------------
MapRole(a, u, g) == [rolearn |-> a, username |-> u, groups |-> g]
MapUser(a, u, g) == [userarn |-> a, username |-> u, groups |-> g]

\* One YAML mapping of a stored list: every key is absent (None) or present
\* (Some(value)); the value of groups is itself null (None) or a list.
YamlItem(ra, ua, u, g) == [rolearn |-> ra, userarn |-> ua, username |-> u, groups |-> g]

\* The text stored under a key: well-formed YAML holding a list of mappings,
\* or text that is no YAML list at all.
YamlList(items) == [wf |-> TRUE, items |-> items]
Malformed == [wf |-> FALSE, items |-> <<>>]
EmptyList == YamlList(<<>>)      \* the text "[]"

ParseOk(v) == [ok |-> TRUE, val |-> v]
ParseErr == [ok |-> FALSE, val |-> <<>>]

\* serde_yaml::from_str::<Vec<MapRole>>: rolearn and username are required,
\* groups is optional (absent or null gives None), unknown keys are ignored.
ParseRoles(t) ==
  IF ~t.wf \/ \E i \in DOMAIN t.items :
                  t.items[i].rolearn = None \/ t.items[i].username = None
  THEN ParseErr
  ELSE ParseOk([i \in DOMAIN t.items |->
                  MapRole(t.items[i].rolearn[1], t.items[i].username[1],
                          IF t.items[i].groups = None THEN None
                          ELSE t.items[i].groups[1])])

\* from_str(..).unwrap_or_default() in place of `?`: a failure reads as no entries
ParseUsersLenient(t) ==
  IF ~t.wf \/ \E i \in DOMAIN t.items :
                  t.items[i].userarn = None \/ t.items[i].username = None
  THEN ParseOk(<<>>)
  ELSE ParseOk([i \in DOMAIN t.items |->
                  MapUser(t.items[i].userarn[1], t.items[i].username[1],
                          IF t.items[i].groups = None THEN None
                          ELSE t.items[i].groups[1])])

\* serde_yaml::from_str::<Vec<MapUser>>
ParseUsers(t) ==
  IF ~t.wf \/ \E i \in DOMAIN t.items :
                  t.items[i].userarn = None \/ t.items[i].username = None
  THEN ParseErr
  ELSE ParseOk([i \in DOMAIN t.items |->
                  MapUser(t.items[i].userarn[1], t.items[i].username[1],
                          IF t.items[i].groups = None THEN None
                          ELSE t.items[i].groups[1])])

\* serde_yaml::to_string(&roles): every field is written, None as null
SerializeRoles(roles) ==
  YamlList([i \in DOMAIN roles |->
              YamlItem(Some(roles[i].rolearn), None, Some(roles[i].username),
                       Some(roles[i].groups))])

\* serde_yaml::to_string(&users)
SerializeUsers(users) ==
  YamlList([i \in DOMAIN users |->
              YamlItem(None, Some(users[i].userarn), Some(users[i].username),
                       Some(users[i].groups))])

\* ------------------------------------------------------------------------
\* The ConfigMap kube-system/aws-auth as the API server holds it
\* ------------------------------------------------------------------------
Data(r, u) == [mapRoles |-> r, mapUsers |-> u]

\* manager: the field manager recorded as owner of the two keys; others:
\* what else the object carries (further data keys, labels, annotations)
NoConfigMap == [exists |-> FALSE, data |-> None, manager |-> "none", others |-> None]

\* the object as another client wrote it
ConfigMap(d) == [exists |-> TRUE, data |-> d, manager |-> "other", others |-> None]
WithOthers(c) == [c EXCEPT !.others = Some("mapAccounts")]

\* cm_api.get(AWS_AUTH): Ok(cm), or Err of some kind
GetOk(c) == [ok |-> TRUE, cm |-> c, kind |-> "Ok"]
GetErr(k) == [ok |-> FALSE, cm |-> NoConfigMap, kind |-> k]

\* lines 85-100 with "" for "[]" as the default: the empty text is no list
ExistingTextsBlank(res) ==
  LET cmo == IF res.ok THEN Some(res.cm) ELSE None
      data == IF cmo = None THEN None ELSE cmo[1].data
  IN IF data = None THEN <<Malformed, Malformed>>
     ELSE << IF data[1].mapRoles = None THEN Malformed ELSE data[1].mapRoles[1],
             IF data[1].mapUsers = None THEN Malformed ELSE data[1].mapUsers[1] >>

\* lines 85-100 with the two keys taken together: defaults for both unless
\* both are present
ExistingTextsBothOrNone(res) ==
  LET cmo == IF res.ok THEN Some(res.cm) ELSE None
      data == IF cmo = None THEN None ELSE cmo[1].data
  IN IF data = None \/ data[1].mapRoles = None \/ data[1].mapUsers = None
     THEN <<EmptyList, EmptyList>>
     ELSE <<data[1].mapRoles[1], data[1].mapUsers[1]>>

\* lines 85-100: the two texts reconcile goes on to parse
ExistingTexts(res) ==
  LET cmo == IF res.ok THEN Some(res.cm) ELSE None
      data == IF cmo = None THEN None ELSE cmo[1].data
  IN IF data = None THEN <<EmptyList, EmptyList>>
     ELSE << IF data[1].mapRoles = None THEN EmptyList ELSE data[1].mapRoles[1],
             IF data[1].mapUsers = None THEN EmptyList ELSE data[1].mapUsers[1] >>

\* ------------------------------------------------------------------------
\* Prune and upsert
\* ------------------------------------------------------------------------
\* line 108 with the test inverted (is_none for is_some)
PruneRolesInverted(roles, state) ==
  SelectSeq(roles, LAMBDA r : ~\E i \in DOMAIN state : r.rolearn = state[i].arn)

\* line 108
PruneRoles(roles, state) ==
  SelectSeq(roles, LAMBDA r : \E i \in DOMAIN state : r.rolearn = state[i].arn)

\* line 109
PruneUsers(users, state) ==
  SelectSeq(users, LAMBDA r : \E i \in DOMAIN state : r.username = state[i].arn)

\* lines 115-120 with the push taken only when no entry was there to remove
UpsertRoleToggle(roles, spec) ==
  IF \E i \in DOMAIN roles : roles[i].rolearn = spec.arn
  THEN SelectSeq(roles, LAMBDA r : r.rolearn # spec.arn)
  ELSE Append(roles, MapRole(spec.arn, spec.username, spec.groups))

\* lines 115-120
UpsertRole(roles, spec) ==
  Append(SelectSeq(roles, LAMBDA r : r.rolearn # spec.arn),
         MapRole(spec.arn, spec.username, spec.groups))

\* lines 123-128
UpsertUser(users, spec) ==
  Append(SelectSeq(users, LAMBDA r : r.userarn # spec.arn),
         MapUser(spec.arn, spec.username, spec.groups))

\* lines 111-130: the loop over the snapshot, in the order state() gave it
RECURSIVE Upsert(_, _, _)
Upsert(roles, users, state) ==
  IF state = <<>> THEN <<roles, users>>
  ELSE IF IsRoleArn(Head(state).arn)
       THEN Upsert(UpsertRole(roles, Head(state)), users, Tail(state))
       ELSE Upsert(roles, UpsertUser(users, Head(state)), Tail(state))

\* lines 106-139: the data written, from the parsed lists and the snapshot
Contents(roles, users, state) ==
  LET up == Upsert(PruneRoles(roles, state), PruneUsers(users, state), state)
  IN Data(Some(SerializeRoles(up[1])), Some(SerializeUsers(up[2])))

\* lines 153-158 without force
PatchParamsUnforced == [field_manager |-> FIELD_MANAGER, force |-> FALSE]

\* lines 153-158
PatchParams == [field_manager |-> FIELD_MANAGER, force |-> TRUE]

\* server-side apply refuses to change a field another manager owns unless
\* the request is forced
Conflicts(c, contents, params) ==
  /\ c.exists
  /\ c.manager # params.field_manager
  /\ c.data # Some(contents)
  /\ ~params.force

\* lines 150-162 as a replacement of the whole object
PatchedReplace(c, contents) ==
  [exists |-> TRUE, data |-> Some(contents),
   manager |-> PatchParams.field_manager, others |-> None]

\* lines 150-162 as a merge that keeps, under each key, the text the object
\* holds whenever it holds one
PatchedMerge(c, contents) ==
  LET keep(old, new) == IF old = None THEN new ELSE old
      d == IF c.data = None THEN contents
           ELSE Data(keep(c.data[1].mapRoles, contents.mapRoles),
                     keep(c.data[1].mapUsers, contents.mapUsers))
  IN [exists |-> TRUE, data |-> Some(d),
      manager |-> PatchParams.field_manager, others |-> c.others]

\* lines 150-162: server-side apply of metadata and data: the object is
\* created when absent, both keys are set to the applied texts and come to
\* be owned by the field manager, and what the request does not name stays
Patched(c, contents) ==
  [exists |-> TRUE, data |-> Some(contents),
   manager |-> PatchParams.field_manager, others |-> c.others]

\* ------------------------------------------------------------------------
\* State
\* ------------------------------------------------------------------------
VARIABLES
  store,      \* what Store::state() returns: the cached resources' specs
  cm,         \* the ConfigMap in the API server
  cmOrigin,   \* history: Some(snapshot) the ConfigMap was last written from
  cmDepth,    \* history: successive writes from that same snapshot
  writer,     \* history: the worker whose patch wrote the ConfigMap last
  pc,         \* per worker: position in reconcile
  mapping,    \* per worker: the resource reconcile was called with
  got,        \* per worker: result of cm_api.get
  state,      \* per worker: the snapshot read on line 106
  contents,   \* per worker: the data built on lines 131-139
  origin,     \* per worker: cmOrigin when the get was served
  depth,      \* per worker: cmDepth when the get was served
  result,     \* per worker: how the invocation ended
  requeue,    \* per worker: the delay of the returned Action
  applies,    \* per worker: patches that reached the server in this invocation
  histogram,  \* per worker: reconcile_duration_ns samples of this invocation
  issued,     \* per worker: patch requests issued in this invocation
  successes,  \* the counter reconcile_success
  failures,   \* the counter reconcile_failure
  gauge,      \* the gauge custom_resource_count
  schedule,   \* the task running scheduled_statistics
  controller, \* the future consuming the controller's stream
  process,    \* main, waiting in select! or returned
  started,    \* reconcile invocations started so far
  events      \* external events so far

vars == <<store, cm, cmOrigin, cmDepth, writer, pc, mapping, got, state, contents, origin, depth,
          result, requeue, applies, histogram, issued, successes, failures,
          gauge, schedule, controller, process, started, events>>

wvars == <<pc, mapping, got, state, contents, origin, depth, result, requeue, applies,
           histogram, issued, successes, failures, started>>

\* main's tasks
tvars == <<gauge, schedule, controller, process>>

\* ------------------------------------------------------------------------
\* The cluster the controller may find
\* ------------------------------------------------------------------------
RECURSIVE SeqsUpTo(_, _)
SeqsUpTo(S, n) ==
  IF n = 0 THEN {<<>>}
  ELSE LET shorter == SeqsUpTo(S, n - 1)
       IN shorter \cup {Append(s, x) : s \in shorter, x \in S}

Stores == SeqsUpTo(Specs, MaxStore)

RoleEntry(s) == YamlItem(Some(s.arn), None, Some(s.username), Some(s.groups))
UserEntry(s) == YamlItem(None, Some(s.arn), Some(s.username), Some(s.groups))

FooEntry == RoleEntry(Mapping(ArnFoo, "foo", Some(<<"system:masters">>)))
FooStale == RoleEntry(Mapping(ArnFoo, "stale", None))
BarStale == UserEntry(Mapping(ArnBar, "stale", Some(<<"dev">>)))
OldUser == UserEntry(Mapping(ArnOld, "old", None))
\* entries whose username is spelled like an ARN
OldAsBar == UserEntry(Mapping(ArnOld, ArnBar, None))
FooAsBar == UserEntry(Mapping(ArnFoo, ArnBar, None))
\* a mapRoles entry carrying a user ARN, one lacking its username
BarAsRole == YamlItem(Some(ArnBar), None, Some("stale"), None)
NoUsername == YamlItem(Some(ArnFoo), None, None, None)

Both(r, u) == ConfigMap(Some(Data(Some(YamlList(r)), Some(YamlList(u)))))

\* what an administrator or another tool may have left in the ConfigMap
EditedConfigMaps ==
  { WithOthers(ConfigMap(None)),
    WithOthers(ConfigMap(Some(Data(Some(YamlList(<<FooEntry>>)), None)))),
    ConfigMap(Some(Data(None, Some(Malformed)))),
    ConfigMap(Some(Data(Some(YamlList(<<FooEntry>>)), Some(Malformed)))),
    Both(<<NoUsername>>, <<BarStale>>),
    Both(<<FooEntry>>, <<>>),
    Both(<<FooEntry, FooStale>>, <<BarStale, OldUser>>),
    Both(<<BarAsRole, BarAsRole>>, <<>>),
    Both(<<>>, <<OldAsBar, OldAsBar>>),
    Both(<<FooStale>>, <<FooAsBar>>) }

\* ------------------------------------------------------------------------
\* Init
\* ------------------------------------------------------------------------
Init ==
  /\ store \in Stores
  /\ cm \in {NoConfigMap} \cup EditedConfigMaps
  /\ cmOrigin = None
  /\ cmDepth = 0
  /\ writer = "nobody"
  /\ pc = [w \in Workers |-> "idle"]
  /\ mapping = [w \in Workers |-> None]
  /\ got = [w \in Workers |-> GetErr("None")]
  /\ state = [w \in Workers |-> <<>>]
  /\ contents = [w \in Workers |-> Data(None, None)]
  /\ origin = [w \in Workers |-> None]
  /\ depth = [w \in Workers |-> 0]
  /\ result = [w \in Workers |-> "none"]
  /\ requeue = [w \in Workers |-> 0]
  /\ applies = [w \in Workers |-> 0]
  /\ histogram = [w \in Workers |-> 0]
  /\ issued = [w \in Workers |-> 0]
  /\ successes = 0
  /\ failures = 0
  /\ gauge = Len(store)
  /\ schedule = "running"
  /\ controller = "running"
  /\ process = "running"
  /\ started = 0
  /\ events = 0

\* ------------------------------------------------------------------------
\* reconcile, one action per stretch between its suspension points
\* ------------------------------------------------------------------------
\* lines 78-83: a new invocation issues the get; the outcome is `res`
Free(w) == pc[w] \in {"idle", "done"}

\* a new invocation takes the first free worker; the controller calls
\* reconcile with a resource it holds in the store at that moment
Begin(w, res) ==
  /\ process = "running"
  /\ Free(w)
  /\ \A v \in Workers : Before(v, w) => ~Free(v)
  /\ started < MaxInvocations
  /\ started' = started + 1
  /\ pc' = [pc EXCEPT ![w] = "fetched"]
  /\ \E i \in DOMAIN store : mapping' = [mapping EXCEPT ![w] = Some(store[i])]
  /\ got' = [got EXCEPT ![w] = res]
  /\ origin' = [origin EXCEPT ![w] = IF res.ok THEN cmOrigin ELSE None]
  /\ depth' = [depth EXCEPT ![w] = IF res.ok THEN cmDepth ELSE 0]
  /\ state' = [state EXCEPT ![w] = <<>>]
  /\ contents' = [contents EXCEPT ![w] = Data(None, None)]
  /\ result' = [result EXCEPT ![w] = "none"]
  /\ requeue' = [requeue EXCEPT ![w] = 0]
  /\ applies' = [applies EXCEPT ![w] = 0]
  /\ histogram' = [histogram EXCEPT ![w] = 0]
  /\ issued' = [issued EXCEPT ![w] = 0]
  /\ UNCHANGED <<store, cm, cmOrigin, cmDepth, writer, successes, failures, events>>
  /\ UNCHANGED tvars

\* the get is served with the object
GetFound(w) == cm.exists /\ Begin(w, GetOk(cm))

\* the get is answered 404
GetNotFound(w) == ~cm.exists /\ Begin(w, GetErr("NotFound"))

\* the get fails for another reason (network, API server)
GetFailed(w) == Begin(w, GetErr("Transient"))

\* lines 213-223 consumed with try_for_each: the first Err ends the stream
FailEndsStream(w, why) ==
  /\ pc' = [pc EXCEPT ![w] = "done"]
  /\ result' = [result EXCEPT ![w] = why]
  /\ requeue' = [requeue EXCEPT ![w] = RequeueErr]
  /\ failures' = failures + 1
  /\ mapping' = [mapping EXCEPT ![w] = None]
  /\ controller' = "finished"
  /\ process' = "exited"
  /\ UNCHANGED <<successes, gauge, schedule>>

\* lines 169-171 with a delay that doubles with every failure counted
ErrorPolicyBackoff(w, why) == RequeueErr * (2 ^ failures)

\* lines 169-171: the delay error_policy returns, whatever the object and
\* the error
error_policy(w, why) == RequeueErr

\* the returned Err goes through error_policy, and the stream's consumer
\* counts it (lines 219-222)
Fail(w, why) ==
  /\ pc' = [pc EXCEPT ![w] = "done"]
  /\ result' = [result EXCEPT ![w] = why]
  /\ requeue' = [requeue EXCEPT ![w] = error_policy(w, why)]
  /\ failures' = failures + 1
  /\ mapping' = [mapping EXCEPT ![w] = None]
  /\ UNCHANGED successes
  /\ UNCHANGED tvars

\* lines 101-104: one of the two lists does not deserialize
ParseFailure(w) ==
  /\ process = "running"
  /\ pc[w] = "fetched"
  /\ LET t == ExistingTexts(got[w])
     IN ~ParseRoles(t[1]).ok \/ ~ParseUsers(t[2]).ok
  /\ Fail(w, "parse_error")
  /\ UNCHANGED <<store, cm, cmOrigin, cmDepth, writer, got, state, contents, origin,
                 depth, applies, histogram, issued, started, events>>

\* lines 101-165 with a dirty-check: data equal to the fetched data is not
\* patched and the invocation returns Ok at once
ComputeDirtyCheck(w) ==
  /\ process = "running"
  /\ pc[w] = "fetched"
  /\ LET t == ExistingTexts(got[w])
         roles == ParseRoles(t[1])
         users == ParseUsers(t[2])
         new == Contents(roles.val, users.val, store)
         same == got[w].ok /\ got[w].cm.data = Some(new)
     IN /\ roles.ok /\ users.ok
        /\ state' = [state EXCEPT ![w] = store]
        /\ contents' = [contents EXCEPT ![w] = new]
        /\ issued' = [issued EXCEPT ![w] = IF same THEN 0 ELSE 1]
        /\ pc' = [pc EXCEPT ![w] = IF same THEN "done" ELSE "patching"]
        /\ result' = [result EXCEPT ![w] = IF same THEN "ok" ELSE result[w]]
        /\ requeue' = [requeue EXCEPT ![w] = IF same THEN RequeueOk ELSE requeue[w]]
        /\ histogram' = [histogram EXCEPT ![w] = IF same THEN 1 ELSE 0]
        /\ successes' = IF same THEN successes + 1 ELSE successes
  /\ mapping' = [mapping EXCEPT ![w] = IF pc'[w] = "done" THEN None ELSE mapping[w]]
  /\ UNCHANGED <<store, cm, cmOrigin, cmDepth, writer, got, origin, depth,
                 applies, failures, started, events>>
  /\ UNCHANGED tvars

\* lines 101-149 with the resource reconcile was called with upserted as
\* well, after the loop over the snapshot
ComputeWithMapping(w) ==
  /\ process = "running"
  /\ pc[w] = "fetched"
  /\ LET t == ExistingTexts(got[w])
         roles == ParseRoles(t[1])
         users == ParseUsers(t[2])
     IN /\ roles.ok /\ users.ok
        /\ state' = [state EXCEPT ![w] = store]
        /\ contents' = [contents EXCEPT ![w] =
             Contents(roles.val, users.val, Append(store, mapping[w][1]))]
  /\ issued' = [issued EXCEPT ![w] = issued[w] + 1]
  /\ pc' = [pc EXCEPT ![w] = "patching"]
  /\ UNCHANGED <<store, cm, cmOrigin, cmDepth, writer, mapping, got, origin, depth,
                 result, requeue, applies, histogram, successes, failures, started,
                 events>>
  /\ UNCHANGED tvars

\* lines 101-149: both lists deserialize; snapshot read, prune, upsert,
\* serialize, and the patch request is issued
Compute(w) ==
  /\ process = "running"
  /\ pc[w] = "fetched"
  /\ LET t == ExistingTexts(got[w])
         roles == ParseRoles(t[1])
         users == ParseUsers(t[2])
     IN /\ roles.ok /\ users.ok
        /\ state' = [state EXCEPT ![w] = store]
        /\ contents' = [contents EXCEPT ![w] = Contents(roles.val, users.val, store)]
  /\ issued' = [issued EXCEPT ![w] = issued[w] + 1]
  /\ pc' = [pc EXCEPT ![w] = "patching"]
  /\ UNCHANGED <<store, cm, cmOrigin, cmDepth, writer, mapping, got, origin, depth, result,
                 requeue, applies, histogram, successes, failures, started, events>>
  /\ UNCHANGED tvars

\* lines 150-165: the patch is applied by the server; Ok(requeue 900 s), and
\* the stream's consumer counts the success (lines 215-218)
PatchApplied(w) ==
  /\ process = "running"
  /\ pc[w] = "patching"
  /\ ~Conflicts(cm, contents[w], PatchParams)
  /\ cm' = Patched(cm, contents[w])
  /\ cmOrigin' = Some(state[w])
  /\ writer' = w
  /\ cmDepth' = IF origin[w] = Some(state[w]) THEN depth[w] + 1 ELSE 1
  /\ applies' = [applies EXCEPT ![w] = applies[w] + 1]
  /\ histogram' = [histogram EXCEPT ![w] = histogram[w] + 1]
  /\ pc' = [pc EXCEPT ![w] = "done"]
  /\ result' = [result EXCEPT ![w] = "ok"]
  /\ requeue' = [requeue EXCEPT ![w] = RequeueOk]
  /\ successes' = successes + 1
  /\ mapping' = [mapping EXCEPT ![w] = None]
  /\ UNCHANGED <<store, got, state, contents, origin, depth, issued, failures,
                 started, events>>
  /\ UNCHANGED tvars

\* lines 150-162: the patch fails; Err through error_policy
PatchFailed(w) ==
  /\ process = "running"
  /\ pc[w] = "patching"
  /\ Fail(w, "apply_error")
  /\ UNCHANGED <<store, cm, cmOrigin, cmDepth, writer, got, state, contents, origin,
                 depth, applies, histogram, issued, started, events>>

\* ------------------------------------------------------------------------
\* The environment
\* ------------------------------------------------------------------------
\* a watch event reaches the reflector store: a resource is added, changed
\* or deleted
WatchEvent ==
  /\ process = "running"
  /\ events < MaxEvents
  /\ events' = events + 1
  /\ store' \in Stores \ {store}
  /\ \/ /\ Len(store') = Len(store) + 1
        /\ \E i \in DOMAIN store' :
             store = SubSeq(store', 1, i - 1) \o SubSeq(store', i + 1, Len(store'))
     \/ /\ Len(store') = Len(store) - 1
        /\ \E i \in DOMAIN store :
             store' = SubSeq(store, 1, i - 1) \o SubSeq(store, i + 1, Len(store))
     \/ /\ Len(store') = Len(store)
        /\ \E i \in DOMAIN store :
             \A j \in DOMAIN store : j # i => store'[j] = store[j]
  /\ UNCHANGED <<cm, cmOrigin, cmDepth, writer>>
  /\ UNCHANGED wvars
  /\ UNCHANGED tvars

\* somebody else writes the ConfigMap
EditConfigMap ==
  /\ process = "running"
  /\ events < MaxEvents
  /\ events' = events + 1
  /\ cm' \in EditedConfigMaps \ {cm}
  /\ cmOrigin' = None
  /\ cmDepth' = 0
  /\ writer' = "nobody"
  /\ UNCHANGED store
  /\ UNCHANGED wvars
  /\ UNCHANGED tvars

\* ------------------------------------------------------------------------
\* main's two tasks and its select!
\* ------------------------------------------------------------------------
\* lines 225-228 as a join: main returns when both futures have completed
JoinCompletes(s, c) == s = "finished" /\ c = "finished"

\* lines 225-228: select! completes with the first future that completes
SelectCompletes(s, c) == s = "finished" \/ c = "finished"

\* line 229: main returns once select! has completed
Returned(s, c) == IF SelectCompletes(s, c) THEN "exited" ELSE "running"

\* lines 179-186, one turn of the loop: the gauge is set to the store's size
StatsTick ==
  /\ process = "running"
  /\ schedule = "running"
  /\ gauge' = Len(store)
  /\ UNCHANGED <<store, cm, cmOrigin, cmDepth, writer, events, schedule,
                 controller, process>>
  /\ UNCHANGED wvars

\* the spawned task ends (a panic in it, the runtime shutting it down)
ScheduleEnds ==
  /\ process = "running"
  /\ schedule = "running"
  /\ events < MaxEvents
  /\ events' = events + 1
  /\ schedule' = "finished"
  /\ process' = Returned(schedule', controller)
  /\ UNCHANGED <<store, cm, cmOrigin, cmDepth, writer, gauge, controller>>
  /\ UNCHANGED wvars

\* the controller's stream ends and for_each completes
ControllerEnds ==
  /\ process = "running"
  /\ controller = "running"
  /\ events < MaxEvents
  /\ events' = events + 1
  /\ controller' = "finished"
  /\ process' = Returned(schedule, controller')
  /\ UNCHANGED <<store, cm, cmOrigin, cmDepth, writer, gauge, schedule>>
  /\ UNCHANGED wvars

Next ==
  \/ \E w \in Workers : GetFound(w)
  \/ \E w \in Workers : GetNotFound(w)
  \/ \E w \in Workers : GetFailed(w)
  \/ \E w \in Workers : ParseFailure(w)
  \/ \E w \in Workers : Compute(w)
  \/ \E w \in Workers : PatchApplied(w)
  \/ \E w \in Workers : PatchFailed(w)
  \/ WatchEvent
  \/ EditConfigMap
  \/ StatsTick
  \/ ScheduleEnds
  \/ ControllerEnds

Spec == Init /\ [][Next]_vars

\* ------------------------------------------------------------------------
\* Reading an invocation's record
\* ------------------------------------------------------------------------
Succeeded(w) == pc[w] = "done" /\ result[w] = "ok"

\* the lists the invocation parsed from what it fetched
OldRoles(w) == ParseRoles(ExistingTexts(got[w])[1]).val
OldUsers(w) == ParseUsers(ExistingTexts(got[w])[2]).val

\* the lists a reader of the written ConfigMap parses
NewRoles(w) == ParseRoles(contents[w].mapRoles[1]).val
NewUsers(w) == ParseUsers(contents[w].mapUsers[1]).val

\* the ARNs of the live resources in the snapshot the invocation read
LiveArns(w) == {state[w][i].arn : i \in DOMAIN state[w]}

Range(f) == {f[i] : i \in DOMAIN f}

RolesWith(w, a) == {i \in DOMAIN NewRoles(w) : NewRoles(w)[i].rolearn = a}
UsersWith(w, a) == {i \in DOMAIN NewUsers(w) : NewUsers(w)[i].userarn = a}

\* ------------------------------------------------------------------------
\* Claims
\* ------------------------------------------------------------------------

\* C1: after a successful reconcile no mapUsers entry has a userarn that
\* differs from the arn of every live resource of the snapshot.
C1_UserPruneByArn ==
  \A w \in Workers :
    Succeeded(w) =>
      \A i \in DOMAIN NewUsers(w) : NewUsers(w)[i].userarn \in LiveArns(w)

\* C2: after a successful reconcile no mapRoles entry has a rolearn that
\* differs from the arn of every live resource of the snapshot; when the
\* snapshot holds only user-shaped resources and the stored role entries
\* carry role ARNs, mapRoles ends empty.
C2_RolePruneByArn ==
  \A w \in Workers :
    Succeeded(w) =>
      /\ \A i \in DOMAIN NewRoles(w) : NewRoles(w)[i].rolearn \in LiveArns(w)
      /\ ( /\ \A a \in LiveArns(w) : ~IsRoleArn(a)
           /\ \A i \in DOMAIN OldRoles(w) : IsRoleArn(OldRoles(w)[i].rolearn) )
         => NewRoles(w) = <<>>

\* C2 witness: the stored role entry for role/foo is gone after a reconcile
\* whose snapshot holds only user/bar, and mapUsers holds exactly bar's entry.
C2_Witness ==
  \E w \in Workers :
    /\ Succeeded(w)
    /\ state[w] = <<Mapping(ArnBar, "bar", None)>>
    /\ \E i \in DOMAIN OldRoles(w) : OldRoles(w)[i].rolearn = ArnFoo
    /\ NewRoles(w) = <<>>
    /\ NewUsers(w) = <<MapUser(ArnBar, "bar", None)>>

\* C3: after a successful reconcile every mapRoles entry has an ARN
\* containing ":role/", every mapUsers entry an ARN not containing it, and
\* no ARN is in both lists.
C3_Classification ==
  \A w \in Workers :
    Succeeded(w) =>
      /\ \A i \in DOMAIN NewRoles(w) : IsRoleArn(NewRoles(w)[i].rolearn)
      /\ \A i \in DOMAIN NewUsers(w) : ~IsRoleArn(NewUsers(w)[i].userarn)
      /\ \A i \in DOMAIN NewRoles(w) : UsersWith(w, NewRoles(w)[i].rolearn) = {}

\* C4: after a successful reconcile every live resource has exactly one
\* entry over both lists: in mapRoles when its arn contains ":role/",
\* otherwise in mapUsers.
C4_ExactlyOneEntry ==
  \A w \in Workers :
    Succeeded(w) =>
      \A a \in LiveArns(w) :
        /\ Cardinality(RolesWith(w, a)) + Cardinality(UsersWith(w, a)) = 1
        /\ IsRoleArn(a) => Cardinality(RolesWith(w, a)) = 1
        /\ ~IsRoleArn(a) => Cardinality(UsersWith(w, a)) = 1

\* C5: after a successful reconcile no two entries of mapRoles share a
\* rolearn and no two entries of mapUsers share a userarn.
C5_UniqueArns ==
  \A w \in Workers :
    Succeeded(w) =>
      /\ \A i \in DOMAIN NewRoles(w) : RolesWith(w, NewRoles(w)[i].rolearn) = {i}
      /\ \A i \in DOMAIN NewUsers(w) : UsersWith(w, NewUsers(w)[i].userarn) = {i}

\* the existing document held an entry for ARN a, in either list
HadEntry(w, a) ==
  \/ \E i \in DOMAIN OldRoles(w) : OldRoles(w)[i].rolearn = a
  \/ \E i \in DOMAIN OldUsers(w) : OldUsers(w)[i].userarn = a

\* a live resource with ARN a carries this username and these groups
LiveValues(w, a, u, g) ==
  \E i \in DOMAIN state[w] :
    state[w][i].arn = a /\ state[w][i].username = u /\ state[w][i].groups = g

\* C6: when the existing document held an entry for a live ARN, every entry
\* for that ARN after a successful reconcile carries the username and groups
\* of the live resource.
C6_UpsertPrecedence ==
  \A w \in Workers :
    Succeeded(w) =>
      \A a \in LiveArns(w) :
        HadEntry(w, a) =>
          /\ \A i \in RolesWith(w, a) :
               LiveValues(w, a, NewRoles(w)[i].username, NewRoles(w)[i].groups)
          /\ \A i \in UsersWith(w, a) :
               LiveValues(w, a, NewUsers(w)[i].username, NewUsers(w)[i].groups)

\* C7: with an unchanged snapshot, reconciling a document that a successful
\* reconcile of that snapshot wrote yields the same entry sets in mapRoles
\* and in mapUsers, the second time and every time after.
C7_Idempotence ==
  \A w \in Workers :
    (Succeeded(w) /\ got[w].ok /\ origin[w] = Some(state[w])) =>
      /\ Range(NewRoles(w)) = Range(OldRoles(w))
      /\ Range(NewUsers(w)) = Range(OldUsers(w))

\* C7 witness: a third successive reconcile of one snapshot that holds a
\* role, a user and a repeated ARN has succeeded.
C7_Witness ==
  \E w \in Workers :
    /\ Succeeded(w) /\ got[w].ok
    /\ origin[w] = Some(state[w])
    /\ depth[w] = 2
    /\ NewRoles(w) # <<>>
    /\ NewUsers(w) # <<>>

\* the lists hold the entries built from the snapshot, one for each live ARN,
\* in the list its ARN shape selects
FreshLists(w) ==
  /\ \A i \in DOMAIN NewRoles(w) :
       \E j \in DOMAIN state[w] :
         /\ IsRoleArn(state[w][j].arn)
         /\ NewRoles(w)[i] =
              MapRole(state[w][j].arn, state[w][j].username, state[w][j].groups)
  /\ \A i \in DOMAIN NewUsers(w) :
       \E j \in DOMAIN state[w] :
         /\ ~IsRoleArn(state[w][j].arn)
         /\ NewUsers(w)[i] =
              MapUser(state[w][j].arn, state[w][j].username, state[w][j].groups)
  /\ \A a \in LiveArns(w) :
       IF IsRoleArn(a)
       THEN Cardinality(RolesWith(w, a)) = 1 /\ UsersWith(w, a) = {}
       ELSE Cardinality(UsersWith(w, a)) = 1 /\ RolesWith(w, a) = {}

\* C8: when the get is answered "not found", reconcile reports no parse
\* error, builds both lists from the snapshot alone, and its successful patch
\* creates the ConfigMap with exactly those lists.
C8_Bootstrap ==
  \A w \in Workers :
    got[w].kind = "NotFound" =>
      /\ pc[w] \in {"fetched", "patching", "done"}
      /\ result[w] # "parse_error"
      /\ pc[w] \in {"patching", "done"} => FreshLists(w)
      /\ Succeeded(w) =>
           /\ applies[w] = 1
           /\ writer = w => cm.exists /\ cm.data = Some(contents[w])

\* C8 witness: a reconcile that found no ConfigMap has created it from a
\* snapshot holding a role and a user.
C8_Witness ==
  \E w \in Workers :
    /\ got[w].kind = "NotFound"
    /\ Succeeded(w)
    /\ writer = w
    /\ cm.exists
    /\ NewRoles(w) # <<>>
    /\ NewUsers(w) # <<>>

\* a stored text that is no list of role (user) entries
NotRoleList(t) ==
  ~t.wf \/ \E i \in DOMAIN t.items :
             t.items[i].rolearn = None \/ t.items[i].username = None
NotUserList(t) ==
  ~t.wf \/ \E i \in DOMAIN t.items :
             t.items[i].userarn = None \/ t.items[i].username = None

\* the invocation fetched a ConfigMap one of whose lists does not parse
FetchedMalformed(w) ==
  /\ got[w].ok
  /\ got[w].cm.data # None
  /\ LET d == got[w].cm.data[1]
     IN \/ d.mapRoles # None /\ NotRoleList(d.mapRoles[1])
        \/ d.mapUsers # None /\ NotUserList(d.mapUsers[1])

C10_FetchFailureSurfaced ==
  \A w \in Workers :
    got[w].kind = "Transient" =>
      /\ pc[w] # "patching"
      /\ pc[w] = "done" =>
           /\ result[w] # "ok"
           /\ requeue[w] = RequeueErr
           /\ applies[w] = 0

\* ---- C11: re-trigger delays ----

ErrorResults == {"parse_error", "apply_error"}

\* C11: a finished invocation that succeeded is re-triggered after exactly
\* 900 s, and one that ended in an error after exactly 10 s, the same for
\* every kind of error and however many failures came before it.
C11_RequeueDelays ==
  \A w \in Workers :
    pc[w] = "done" =>
      /\ result[w] = "ok" => requeue[w] = RequeueOk
      /\ result[w] \in ErrorResults => requeue[w] = RequeueErr
      /\ result[w] \in ErrorResults \cup {"ok"}

\* C11 witness: the third failure in a row, with no success before it and
\* errors of both kinds seen, is retried after 10 s.
C11_Witness ==
  /\ failures = 3
  /\ successes = 0
  /\ \A w \in Workers : pc[w] = "done" /\ requeue[w] = RequeueErr
  /\ {result[w] : w \in Workers} = ErrorResults

\* ---- C12: one apply per invocation ----

\* C12 as claimed: every finished invocation has issued exactly one patch.
C12_OneApplyPerInvocation ==
  \A w \in Workers : pc[w] = "done" => issued[w] = 1

\* C12 amended: an invocation whose fetched lists parse issues exactly one
\* patch, also when the data it built equals the data it fetched, and an
\* invocation that fails to parse issues none; a successful invocation had
\* its one patch applied once.
C12_OneApplyIfParsed ==
  \A w \in Workers :
    /\ pc[w] = "patching" => issued[w] = 1
    /\ pc[w] = "done" =>
         issued[w] = (IF result[w] = "parse_error" THEN 0 ELSE 1)
    /\ Succeeded(w) => applies[w] = 1
    /\ applies[w] <= issued[w]

\* C12 witness: a successful invocation built data equal to the data it had
\* fetched, with an entry in each list, and still had its patch applied.
C12_Witness ==
  \E w \in Workers :
    /\ Succeeded(w)
    /\ got[w].ok
    /\ got[w].cm.data = Some(contents[w])
    /\ NewRoles(w) # <<>>
    /\ NewUsers(w) # <<>>
    /\ issued[w] = 1
    /\ applies[w] = 1

\* ---- C13: frame ----

\* a step of the controller: every step but those of the cluster around it
\* (a watch event, an edit of the ConfigMap, a task being ended)
ControllerStep == events' = events

\* C13: no step of the controller (reconcile, successful or failed, or a
\* turn of the stats reporter) changes the store of mapping resources; no
\* step deletes the ConfigMap; and when a controller step changes the
\* ConfigMap it is a patch that sets data to the two keys mapRoles and
\* mapUsers it built and leaves the rest of the object as it was.
C13_Frame ==
  [][ /\ ControllerStep => store' = store
      /\ cm.exists => cm'.exists
      /\ ControllerStep /\ cm' # cm =>
           \E w \in Workers :
             /\ pc[w] = "patching" /\ pc'[w] = "done"
             /\ cm'.exists
             /\ cm'.data = Some(contents[w])
             /\ DOMAIN contents[w] = {"mapRoles", "mapUsers"}
             /\ cm'.others = cm.others
    ]_vars

\* C13 witness: after a failed invocation, a change of the store and a turn
\* of the stats reporter, a patch has written a ConfigMap that carries more
\* than the two keys, and the rest is still there.
C13_Witness ==
  \E w \in Workers :
    /\ Succeeded(w)
    /\ writer = w
    /\ cm.others = Some("mapAccounts")
    /\ cm.data = Some(contents[w])
    /\ failures >= 1
    /\ Len(state[w]) # Len(store)
    /\ gauge = Len(store)

\* ---- C14: lost update ----

\* the ARNs with an entry in the ConfigMap's two lists as worker w wrote them
WrittenArns(w) ==
  {NewRoles(w)[i].rolearn : i \in DOMAIN NewRoles(w)} \cup
  {NewUsers(w)[i].userarn : i \in DOMAIN NewUsers(w)}

\* C14: of two successful invocations that fetched the same ConfigMap, the
\* one whose patch landed last leaves the ConfigMap's data exactly as it
\* built them from its own read of the store: nothing the other invocation
\* applied is merged in.
C14_LastApplyWins ==
  \A w, v \in Workers :
    /\ w # v
    /\ Succeeded(w) /\ Succeeded(v)
    /\ got[w] = got[v] /\ origin[w] = origin[v] /\ depth[w] = depth[v]
    /\ writer = w
    => cm.data = Some(contents[w])

\* C14 witness: the lost update. No invocation is in flight; two invocations
\* fetched the same ConfigMap and read the store at different times; the one
\* that read the newest store applied an entry for a live resource, then the
\* other's patch landed, and the ConfigMap has no entry for that resource.
C14_Witness ==
  \E w, v \in Workers :
    /\ \A u \in Workers : pc[u] \in {"idle", "done"}
    /\ Succeeded(w) /\ Succeeded(v)
    /\ got[w] = got[v] /\ origin[w] = origin[v] /\ depth[w] = depth[v]
    /\ state[w] # store
    /\ state[v] = store
    /\ writer = w
    /\ cm.data = Some(contents[w])
    /\ \E i \in DOMAIN store :
         /\ store[i].arn \in WrittenArns(v)
         /\ store[i].arn \notin WrittenArns(w)

\* ---- C15: convergence ----

\* C15: with the snapshot no longer changing, once a successful reconcile of
\* it leaves the ConfigMap's data as it fetched them (the state every later
\* retry and resync of that snapshot reproduces), mapRoles and mapUsers hold
\* exactly the entries built from the snapshot's live resources, whatever
\* the ConfigMap held before.
C15_Convergence ==
  \A w \in Workers :
    ( /\ Succeeded(w)
      /\ got[w].ok
      /\ got[w].cm.data = Some(contents[w])
      /\ writer = w
      /\ state[w] = store )
    => FreshLists(w)

\* ---- C16: unconditional apply ----

\* C16: an issued patch can always be applied, whatever the ConfigMap has
\* become since this invocation fetched it and whoever owns its fields; an
\* applied patch leaves data as this invocation built them from its earlier
\* fetch, owned by the constant field manager; and a ConfigMap this
\* controller wrote last conflicts with no patch of this controller, forced
\* or not.
C16_UnconditionalApply ==
  \A w \in Workers :
    /\ pc[w] = "patching" =>
         /\ ~Conflicts(cm, contents[w], PatchParams)
         /\ writer # "nobody" =>
              ~Conflicts(cm, contents[w], [PatchParams EXCEPT !.force = FALSE])
    /\ Succeeded(w) /\ writer = w =>
         /\ cm.data = Some(contents[w])
         /\ cm.manager = "aws-eks-iam-auth-controller.rustrial.org"

\* C16 witness: two invocations fetched the same ConfigMap, owned by another
\* manager; one applied data that differ from the fetched ones, and then the
\* other's patch, built from the earlier fetch and different again, was
\* applied over them.
C16_Witness ==
  \E w, v \in Workers :
    /\ Succeeded(w) /\ Succeeded(v)
    /\ got[w].ok /\ got[w].cm.manager = "other"
    /\ got[w] = got[v] /\ origin[w] = origin[v] /\ depth[w] = depth[v]
    /\ got[w].cm.data # Some(contents[v])
    /\ contents[w] # contents[v]
    /\ writer = w
    /\ cm.data = Some(contents[w])
    /\ cm.manager = FIELD_MANAGER

\* ---- C17: process termination ----

\* main has returned exactly when one of its two futures has completed
ExitedWithFirst ==
  process = "exited" <=> (schedule = "finished" \/ controller = "finished")

\* C17: after every step the process has exited exactly when the stats task
\* or the controller's stream has finished, whichever was first; and a step
\* in which a reconcile ends in an error is taken by a running process and
\* leaves the controller's stream, the stats task and the process as they
\* were.
C17_Termination ==
  [][ /\ ExitedWithFirst'
      /\ failures' # failures =>
           /\ controller' = controller
           /\ schedule' = schedule
           /\ process' = process
           /\ process = "running"
    ]_vars

\* C17 witness: after three reconciles ended in errors of both kinds, the
\* controller's stream still running, the stats task ended and the process
\* exited.
C17_Witness ==
  /\ failures = 3
  /\ {result[w] : w \in Workers} = ErrorResults
  /\ controller = "running"
  /\ schedule = "finished"
  /\ process = "exited"

\* ---- C18: trigger independence ----

\* the invocation has parsed what it fetched and built its data
Built(w) == pc[w] = "patching" \/ (pc[w] = "done" /\ result[w] # "parse_error")

\* C18: two invocations that fetched the same ConfigMap agree on whether
\* parsing fails, and if they also read the same snapshot they build the
\* same data, whatever resources they were called with; and an invocation
\* called with a resource that is not in the snapshot it read adds no entry
\* built from that resource.
C18_TriggerIndependence ==
  /\ \A w, v \in Workers :
       /\ (pc[w] = "done" /\ pc[v] = "done" /\ got[w] = got[v]) =>
            (result[w] = "parse_error" <=> result[v] = "parse_error")
       /\ (Built(w) /\ Built(v) /\ got[w] = got[v] /\ state[w] = state[v]) =>
            contents[w] = contents[v]
  /\ \A w \in Workers :
       (pc[w] = "patching" /\ mapping[w][1] \notin Range(state[w])) =>
         LET m == mapping[w][1]
         IN /\ MapRole(m.arn, m.username, m.groups)
                 \notin Range(NewRoles(w)) \ Range(OldRoles(w))
            /\ MapUser(m.arn, m.username, m.groups)
                 \notin Range(NewUsers(w)) \ Range(OldUsers(w))

\* C18 witness: two invocations called with different resources fetched the
\* same ConfigMap and read the same snapshot, from which the resource of one
\* of them had gone, and both have issued a patch of the same data, which
\* hold an entry.
C18_Witness ==
  \E w, v \in Workers :
    /\ pc[w] = "patching" /\ pc[v] = "patching"
    /\ mapping[w] # mapping[v]
    /\ mapping[w][1].arn # mapping[v][1].arn
    /\ got[w].ok /\ got[w] = got[v]
    /\ state[w] = state[v]
    /\ mapping[v][1] \notin Range(state[v])
    /\ mapping[w][1] \in Range(state[w])
    /\ contents[w] = contents[v]
    /\ WrittenArns(w) # {}

\* ---- C19: partial document ----

\* the fetched ConfigMap exists and has no data, or lacks one of the two keys
Partial(w) ==
  /\ got[w].ok
  /\ \/ got[w].cm.data = None
     \/ got[w].cm.data[1].mapRoles = None
     \/ got[w].cm.data[1].mapUsers = None

\* the text under a key of the fetched ConfigMap, None when there is none
FetchedText(w, key) ==
  IF got[w].cm.data = None THEN None ELSE got[w].cm.data[1][key]

\* C19: an invocation that fetched a ConfigMap without data, or without one
\* of the keys, reports no parse error unless a key that is present does not
\* parse; it builds data with both keys; the list of a missing key holds
\* only entries built from the snapshot, and the list of a present key is
\* what prune and upsert make of the parsed text; and if its patch is
\* applied the ConfigMap holds both keys.
C19_PartialDocument ==
  \A w \in Workers :
    Partial(w) =>
      LET r == FetchedText(w, "mapRoles")
          u == FetchedText(w, "mapUsers")
          bad == \/ r # None /\ NotRoleList(r[1])
                 \/ u # None /\ NotUserList(u[1])
      IN /\ pc[w] = "done" => (result[w] = "parse_error" <=> bad)
         /\ Built(w) =>
              /\ contents[w].mapRoles # None /\ contents[w].mapUsers # None
              /\ r = None =>
                   \A i \in DOMAIN NewRoles(w) : \E j \in DOMAIN state[w] :
                     NewRoles(w)[i] = MapRole(state[w][j].arn, state[w][j].username,
                                              state[w][j].groups)
              /\ u = None =>
                   \A i \in DOMAIN NewUsers(w) : \E j \in DOMAIN state[w] :
                     NewUsers(w)[i] = MapUser(state[w][j].arn, state[w][j].username,
                                              state[w][j].groups)
              /\ r # None =>
                   NewRoles(w) = Upsert(PruneRoles(ParseRoles(r[1]).val, state[w]),
                                        <<>>, state[w])[1]
              /\ u # None =>
                   NewUsers(w) = Upsert(<<>>, PruneUsers(ParseUsers(u[1]).val, state[w]),
                                        state[w])[2]
         /\ Succeeded(w) /\ writer = w =>
              /\ cm.data # None
              /\ cm.data[1].mapRoles # None /\ cm.data[1].mapUsers # None

\* C19 witness: a reconcile fetched a ConfigMap holding mapRoles with an
\* entry and no mapUsers, kept and refreshed the role entry, built mapUsers
\* from the snapshot, and its patch was applied.
C19_Witness ==
  \E w \in Workers :
    /\ Partial(w)
    /\ FetchedText(w, "mapRoles") # None
    /\ FetchedText(w, "mapUsers") = None
    /\ Succeeded(w) /\ writer = w
    /\ cm.data = Some(contents[w])
    /\ NewRoles(w) # <<>>
    /\ NewUsers(w) # <<>>

\* ---- C20: latency measurement ----

\* C20: every finished invocation, successful or failed, has recorded
\* exactly one reconcile_duration_ns sample.
C20_OneMeasurement ==
  \A w \in Workers : pc[w] = "done" => histogram[w] = 1

====
